---------------------------- MODULE Spec2Model ----------------------------
(***************************************************************************)
(* A model of capctl's capability sets and their iterator                 *)
(* (caps/capset.rs) and of the codec and the reading of the                *)
(* security.capability extended attribute (caps/file.rs).                  *)
(*                                                                         *)
(* Representation.  TLC's integers are 32-bit signed, so a u32 or u64      *)
(* machine word is modelled as the set of the positions of its 1 bits      *)
(* (bit 0 is the least significant): a u64 is a subset of 0..63, a u32 a   *)
(* subset of 0..31.  & | ^ ! << >> and the `as` casts are the operators    *)
(* below.  A byte is a natural number in 0..255 and a buffer is a sequence *)
(* of bytes; to_le_bytes and from_le_bytes convert between the two by      *)
(* arithmetic.  Rust's 0-based half-open slice attrs[a..b] is              *)
(* SubSeq(attrs, a + 1, b).                                                *)
(***************************************************************************)
EXTENDS Integers, Sequences, FiniteSets

VARIABLES set, other, last, input, attrs, fcaps, res, hist, os, got, it, cl, run

vars == <<set, other, last, input, attrs, fcaps, res, hist, os, got, it, cl, run>>

-----------------------------------------------------------------------------
(* Machine words *)

U64 == 0..63

U32 == 0..31

\* x & y
BitAndW(x, y) == x \cap y

\* x | y
BitOrW(x, y) == x \cup y

\* x ^ y
BitXorW(x, y) == (x \ y) \cup (y \ x)

\* !x on a u64
BitNot64(x) == U64 \ x

\* !x on a u32
BitNot32(x) == U32 \ x

\* x << n on a u64 (bits shifted past bit 63 are lost)
Shl64(x, n) == {i + n : i \in {j \in x : j + n <= 63}}

\* x >> n
Shr(x, n) == {i - n : i \in {j \in x : j >= n}}

\* x as u32 (truncating cast)
AsU32(x) == x \cap U32

\* x as u64 of a u32 (zero extension)
AsU64(x) == x

\* x.count_ones()
count_ones(x) == Cardinality(x)

Bit(x, p) == IF p \in x THEN 1 ELSE 0

\* byte k (0 = least significant) of a word
ByteOf(x, k) ==
    Bit(x, 8 * k) + 2 * Bit(x, 8 * k + 1) + 4 * Bit(x, 8 * k + 2)
    + 8 * Bit(x, 8 * k + 3) + 16 * Bit(x, 8 * k + 4) + 32 * Bit(x, 8 * k + 5)
    + 64 * Bit(x, 8 * k + 6) + 128 * Bit(x, 8 * k + 7)

\* u32::to_le_bytes: least significant byte first
to_le_bytes(x) == [k \in 1..4 |-> ByteOf(x, k - 1)]

\* u32::from_le_bytes of a 4-byte slice
from_le_bytes(bytes) ==
    UNION {{8 * (k - 1) + j : j \in {i \in 0..7 : (bytes[k] \div (2 ^ i)) % 2 = 1}}
           : k \in 1..4}

\* Option<T>
None == <<>>

Some(v) == <<v>>

-----------------------------------------------------------------------------
(* Capabilities: caps/mod.rs and caps/cap.rs *)

NUM_CAPS == 41

CAP_BITMASK == 0..(NUM_CAPS - 1)

Cap == 0..(NUM_CAPS - 1)

\* Cap::to_single_bitfield: 1 << (cap as u8)
to_single_bitfield(cap) == Shl64({0}, cap)

-----------------------------------------------------------------------------
(* CapSet: caps/capset.rs *)

CapSet(b) == [bits |-> b]

empty == CapSet({})

clear(self) == CapSet({})

is_empty(self) == self.bits = {}

size(self) == count_ones(self.bits)

has(self, cap) == BitAndW(self.bits, to_single_bitfield(cap)) # {}

add(self, cap) == CapSet(BitOrW(self.bits, to_single_bitfield(cap)))

\* mutation: the bit is flipped, not cleared
drop_toggle(self, cap) == CapSet(BitXorW(self.bits, to_single_bitfield(cap)))

drop(self, cap) == CapSet(BitAndW(self.bits, BitNot64(to_single_bitfield(cap))))

set_state(self, cap, val) == IF val THEN add(self, cap) ELSE drop(self, cap)

RECURSIVE add_all(_, _)
add_all(self, t) ==
    IF t = <<>> THEN self ELSE add_all(add(self, Head(t)), Tail(t))

RECURSIVE drop_all(_, _)
drop_all(self, t) ==
    IF t = <<>> THEN self ELSE drop_all(drop(self, Head(t)), Tail(t))

union(self, rhs) == CapSet(BitOrW(self.bits, rhs.bits))

intersection(self, rhs) == CapSet(BitAndW(self.bits, rhs.bits))

\* mutation: the mask is not applied
from_bitmask_truncate_nomask(bitmask) == CapSet(bitmask)

from_bitmask_truncate(bitmask) == CapSet(BitAndW(bitmask, CAP_BITMASK))

from_bitmasks_u32(lower, upper) ==
    from_bitmask_truncate(BitOrW(Shl64(AsU64(upper), 32), AsU64(lower)))

\* mutation: the complement is not truncated
not_nomask(self) == CapSet(BitNot64(self.bits))

not(self) == CapSet(BitAndW(BitNot64(self.bits), CAP_BITMASK))

bitand(self, rhs) == intersection(self, rhs)

bitor(self, rhs) == union(self, rhs)

bitxor(self, rhs) == CapSet(BitXorW(self.bits, rhs.bits))

\* mutation: `^` where the code has `& !`
sub_xor(self, rhs) == CapSet(BitXorW(self.bits, rhs.bits))

sub(self, rhs) == CapSet(BitAndW(self.bits, BitNot64(rhs.bits)))

\* capset!(): empty(); capset!(c1, ..., cn): from_bitmask_truncate((1 << c1) | ... | (1 << cn))
RECURSIVE capset_bits(_)
capset_bits(caps) ==
    IF caps = <<>> THEN {}
    ELSE BitOrW(Shl64({0}, Head(caps)), capset_bits(Tail(caps)))

capset(caps) ==
    IF caps = <<>> THEN empty ELSE from_bitmask_truncate(capset_bits(caps))

-----------------------------------------------------------------------------
(* crate::constants, as used by caps/file.rs.  The values are those of     *)
(* linux/capability.h; the test vectors of test_filecaps_pack_unpack fix   *)
(* the revision numbers in the most significant byte of the magic, the     *)
(* effective flag in bit 0 and the three sizes.                            *)

\* 0xFF00_0000
VFS_CAP_REVISION_MASK == 24..31

\* !VFS_CAP_REVISION_MASK
VFS_CAP_FLAGS_MASK == BitNot32(VFS_CAP_REVISION_MASK)

\* 0x0000_0001
VFS_CAP_FLAGS_EFFECTIVE == {0}

\* 0x0100_0000
VFS_CAP_REVISION_1 == {24}

\* 0x0200_0000
VFS_CAP_REVISION_2 == {25}

\* 0x0300_0000
VFS_CAP_REVISION_3 == {24, 25}

XATTR_CAPS_SZ_1 == 12

XATTR_CAPS_SZ_2 == 20

XATTR_CAPS_SZ_3 == 24

XATTR_CAPS_MAX_SIZE == XATTR_CAPS_SZ_3

\* libc::EINVAL
EINVAL == 22

-----------------------------------------------------------------------------
(* FileCaps: caps/file.rs *)

FileCaps(effective, permitted, inheritable, rootid) ==
    [effective |-> effective, permitted |-> permitted,
     inheritable |-> inheritable, rootid |-> rootid]

FileCaps_empty == FileCaps(FALSE, empty, empty, None)

\* io::Result<FileCaps>: Ok carries the value, Err the raw OS error code
Ok(v) == [ok |-> TRUE, err |-> 0, val |-> Some(v)]

Err(code) == [ok |-> FALSE, err |-> code, val |-> None]

\* u32::from_le_bytes(attrs[a..a + 4].try_into().unwrap())
le32_at(a_attrs, a) == from_le_bytes(SubSeq(a_attrs, a + 1, a + 4))

magic_of(a_attrs) == le32_at(a_attrs, 0)

version_of(magic) == BitAndW(magic, VFS_CAP_REVISION_MASK)

\* mutation: the flags taken from the most significant byte
flags_of_high(magic) == Shr(magic, 24)

flags_of(magic) == BitAndW(magic, VFS_CAP_FLAGS_MASK)

\* mutation: any flag bit counts as the effective flag
effective_of_anyflag(flags) == flags # {}

effective_of(flags) == BitAndW(flags, VFS_CAP_FLAGS_EFFECTIVE) # {}

\* mutation: each set read as a sequential low/high pair
unpack_v2_sequential(a_attrs, effective) ==
    FileCaps(effective,
             from_bitmasks_u32(le32_at(a_attrs, 4), le32_at(a_attrs, 8)),
             from_bitmasks_u32(le32_at(a_attrs, 12), le32_at(a_attrs, 16)),
             None)

\* the VFS_CAP_REVISION_2 arm
unpack_v2(a_attrs, effective) ==
    FileCaps(effective,
             from_bitmasks_u32(le32_at(a_attrs, 4), le32_at(a_attrs, 12)),
             from_bitmasks_u32(le32_at(a_attrs, 8), le32_at(a_attrs, 16)),
             None)

\* mutation: the root id read from the wrong offset
unpack_v3_rootid_offset(a_attrs, effective) ==
    FileCaps(effective,
             from_bitmasks_u32(le32_at(a_attrs, 4), le32_at(a_attrs, 12)),
             from_bitmasks_u32(le32_at(a_attrs, 8), le32_at(a_attrs, 16)),
             Some(le32_at(a_attrs, 16)))

\* the VFS_CAP_REVISION_3 arm
unpack_v3(a_attrs, effective) ==
    FileCaps(effective,
             from_bitmasks_u32(le32_at(a_attrs, 4), le32_at(a_attrs, 12)),
             from_bitmasks_u32(le32_at(a_attrs, 8), le32_at(a_attrs, 16)),
             Some(le32_at(a_attrs, 20)))

\* mutation: the permitted and inheritable words exchanged
unpack_v1_swapped(a_attrs, effective) ==
    FileCaps(effective,
             from_bitmask_truncate(AsU64(le32_at(a_attrs, 8))),
             from_bitmask_truncate(AsU64(le32_at(a_attrs, 4))),
             None)

\* the VFS_CAP_REVISION_1 arm
unpack_v1(a_attrs, effective) ==
    FileCaps(effective,
             from_bitmask_truncate(AsU64(le32_at(a_attrs, 4))),
             from_bitmask_truncate(AsU64(le32_at(a_attrs, 8))),
             None)

\* mutation: lengths matched as "at least", not exactly
unpack_attrs_atleast(a_attrs) ==
    LET len == Len(a_attrs) IN
    IF len < 4 THEN Err(EINVAL)
    ELSE
        LET magic == magic_of(a_attrs)
            version == version_of(magic)
            flags == flags_of(magic)
            effective == effective_of(flags)
        IN  IF version = VFS_CAP_REVISION_2 /\ len >= XATTR_CAPS_SZ_2
            THEN Ok(unpack_v2(a_attrs, effective))
            ELSE IF version = VFS_CAP_REVISION_3 /\ len >= XATTR_CAPS_SZ_3
            THEN Ok(unpack_v3(a_attrs, effective))
            ELSE IF version = VFS_CAP_REVISION_1 /\ len >= XATTR_CAPS_SZ_1
            THEN Ok(unpack_v1(a_attrs, effective))
            ELSE Err(EINVAL)

unpack_attrs(a_attrs) ==
    LET len == Len(a_attrs) IN
    IF len < 4 THEN Err(EINVAL)
    ELSE
        LET magic == magic_of(a_attrs)
            version == version_of(magic)
            flags == flags_of(magic)
            effective == effective_of(flags)
        IN  IF version = VFS_CAP_REVISION_2 /\ len = XATTR_CAPS_SZ_2
            THEN Ok(unpack_v2(a_attrs, effective))
            ELSE IF version = VFS_CAP_REVISION_3 /\ len = XATTR_CAPS_SZ_3
            THEN Ok(unpack_v3(a_attrs, effective))
            ELSE IF version = VFS_CAP_REVISION_1 /\ len = XATTR_CAPS_SZ_1
            THEN Ok(unpack_v1(a_attrs, effective))
            ELSE Err(EINVAL)

\* buf[off..off + 4].copy_from_slice(&bytes)
copy_from_slice(buf, off, bytes) ==
    [i \in 1..Len(buf) |-> IF off < i /\ i <= off + 4 THEN bytes[i - off] ELSE buf[i]]

\* mutation: the effective flag is not written
pack_magic_noflag(self) ==
    IF self.rootid # None THEN VFS_CAP_REVISION_3 ELSE VFS_CAP_REVISION_2

\* the magic pack_into writes
pack_magic(self) ==
    LET magic == IF self.rootid # None THEN VFS_CAP_REVISION_3
                 ELSE VFS_CAP_REVISION_2
    IN  IF self.effective THEN BitOrW(magic, VFS_CAP_FLAGS_EFFECTIVE) ELSE magic

\* mutation: each set written as a sequential low/high pair
pack_words_sequential(self, buf) ==
    LET b0 == copy_from_slice(buf, 0, to_le_bytes(pack_magic(self)))
        b1 == copy_from_slice(b0, 4, to_le_bytes(AsU32(self.permitted.bits)))
        b2 == copy_from_slice(b1, 8, to_le_bytes(AsU32(Shr(self.permitted.bits, 32))))
        b3 == copy_from_slice(b2, 12, to_le_bytes(AsU32(self.inheritable.bits)))
    IN  copy_from_slice(b3, 16, to_le_bytes(AsU32(Shr(self.inheritable.bits, 32))))

\* the five words pack_into always writes
pack_words(self, buf) ==
    LET b0 == copy_from_slice(buf, 0, to_le_bytes(pack_magic(self)))
        b1 == copy_from_slice(b0, 4, to_le_bytes(AsU32(self.permitted.bits)))
        b2 == copy_from_slice(b1, 8, to_le_bytes(AsU32(self.inheritable.bits)))
        b3 == copy_from_slice(b2, 12, to_le_bytes(AsU32(Shr(self.permitted.bits, 32))))
    IN  copy_from_slice(b3, 16, to_le_bytes(AsU32(Shr(self.inheritable.bits, 32))))

\* mutation: the length counts the root id, which is never written
pack_into_norootid(self, buf) ==
    LET len == 20
        b == pack_words(self, buf)
    IN  IF self.rootid # None
        THEN [buf |-> b, len |-> len + 4]
        ELSE [buf |-> b, len |-> len]

\* pack_into(&self, buf) -> usize: the buffer as written and the length returned
pack_into(self, buf) ==
    LET len == 20
        b == pack_words(self, buf)
    IN  IF self.rootid # None
        THEN [buf |-> copy_from_slice(b, len, to_le_bytes(self.rootid[1])),
              len |-> len + 4]
        ELSE [buf |-> b, len |-> len]

\* vec![0u8; XATTR_CAPS_MAX_SIZE], pack_into, truncate(len)
pack_attrs(self) ==
    LET r == pack_into(self, [i \in 1..XATTR_CAPS_MAX_SIZE |-> 0])
    IN  SubSeq(r.buf, 1, r.len)

-----------------------------------------------------------------------------
(* file.rs: reading the attribute of a file *)

ENODATA == 61

ENOTDIR == 20

EBADF == 9

\* libc::getxattr / fgetxattr on a file whose attribute is `attr` (None when the
\* file has none) or whose lookup fails with `fail` (0 when it does not), into
\* the zeroed buffer data of `bufsize` bytes: the return value, errno and the buffer
getxattr(attr, fail, bufsize) ==
    LET data == [i \in 1..bufsize |-> 0] IN
    IF fail # 0 THEN [ret |-> -1, errno |-> fail, data |-> data]
    ELSE IF attr = None THEN [ret |-> -1, errno |-> ENODATA, data |-> data]
    ELSE IF Len(attr[1]) > bufsize THEN [ret |-> -1, errno |-> 34, data |-> data]
    ELSE [ret |-> Len(attr[1]), errno |-> 0,
          data |-> [i \in 1..bufsize |-> IF i <= Len(attr[1]) THEN attr[1][i] ELSE 0]]

\* mutation: the whole buffer is decoded, not its first attr_res bytes
extract_attr_or_error_whole(data, attr_res, errno) ==
    IF attr_res >= 0
    THEN LET r == unpack_attrs(data)
         IN  IF r.ok THEN Ok(Some(r.val[1])) ELSE Err(r.err)
    ELSE IF errno = ENODATA THEN Ok(None) ELSE Err(errno)

\* FileCaps::extract_attr_or_error(data, attr_res); errno is what
\* io::Error::last_os_error() reads
extract_attr_or_error(data, attr_res, errno) ==
    IF attr_res >= 0
    THEN LET r == unpack_attrs(SubSeq(data, 1, attr_res))
         IN  IF r.ok THEN Ok(Some(r.val[1])) ELSE Err(r.err)
    ELSE IF errno = ENODATA THEN Ok(None) ELSE Err(errno)

\* FileCaps::get_for_file / get_for_fd
get_for(attr, fail) ==
    LET r == getxattr(attr, fail, XATTR_CAPS_MAX_SIZE)
    IN  extract_attr_or_error(r.data, r.ret, r.errno)

-----------------------------------------------------------------------------
(* capset.rs: CapSetIterator *)

\* Cap::from_u8(val)
from_u8(val) == IF val \in Cap THEN Some(val) ELSE None

\* struct CapSetIterator { set: CapSet, i: u8 }
CapSetIterator(s, i) == [set |-> s, i |-> i]

\* impl IntoIterator for CapSet
into_iter(self) == CapSetIterator(self, 0)

\* CapSet::iter
iter(self) == into_iter(self)

\* #[derive(Clone)]
CapSetIterator_clone(self) == CapSetIterator(self.set, self.i)

\* u64::leading_zeros
leading_zeros(x) ==
    IF x = {} THEN 64 ELSE 63 - (CHOOSE p \in x : \A q \in x : q <= p)

\* mutation: the cursor stops on the capability it yields
RECURSIVE CapSetIterator_next_stay(_)
CapSetIterator_next_stay(self) ==
    LET c == from_u8(self.i) IN
    IF c = None THEN [it |-> self, ret |-> None]
    ELSE IF has(self.set, c[1]) THEN [it |-> self, ret |-> c]
    ELSE CapSetIterator_next_stay([self EXCEPT !.i = (self.i + 1) % 256])

\* mutation: the cursor moves on also when no capability is left
RECURSIVE CapSetIterator_next_overrun(_)
CapSetIterator_next_overrun(self) ==
    LET c == from_u8(self.i)
        adv == [self EXCEPT !.i = (self.i + 1) % 256]
    IN  IF c = None THEN [it |-> adv, ret |-> None]
        ELSE IF has(self.set, c[1]) THEN [it |-> adv, ret |-> c]
        ELSE CapSetIterator_next_overrun(adv)

\* CapSetIterator::next(&mut self): the iterator afterwards and the value returned
RECURSIVE CapSetIterator_next(_)
CapSetIterator_next(self) ==
    LET c == from_u8(self.i)
        adv == [self EXCEPT !.i = (self.i + 1) % 256]
    IN  IF c = None THEN [it |-> self, ret |-> None]
        ELSE IF has(self.set, c[1]) THEN [it |-> adv, ret |-> c]
        ELSE CapSetIterator_next(adv)

\* mutation: `<=` where the code has `<`
CapSetIterator_last_le(self) ==
    LET n == 64 - leading_zeros(self.set.bits) IN
    IF self.i <= n THEN from_u8(n - 1) ELSE None

\* CapSetIterator::last(self)
CapSetIterator_last(self) ==
    LET n == 64 - leading_zeros(self.set.bits) IN
    IF self.i < n THEN from_u8(n - 1) ELSE None

\* mutation: the bits are counted without the shift
CapSetIterator_len_noshift(self) == count_ones(self.set.bits)

\* ExactSizeIterator::len(&self)
CapSetIterator_len(self) == count_ones(Shr(self.set.bits, self.i))

\* CapSetIterator::count(self)
CapSetIterator_count(self) == CapSetIterator_len(self)

\* CapSetIterator::size_hint(&self)
CapSetIterator_size_hint(self) ==
    LET len == CapSetIterator_len(self) IN <<len, Some(len)>>

\* impl FromIterator<Cap> for CapSet
from_iter(t) == add_all(empty, t)

-----------------------------------------------------------------------------
(* Inputs *)

\* the longest sequence handed to add_all, drop_all and capset!
MaxCaps == 2

\* the longest attribute value handed to unpack_attrs
MaxAttrLen == 25

\* the number of pack/unpack calls made on one input
MaxOps == 3

\* CHOWN and the last capability
CapInputs == {0, NUM_CAPS - 1}

CapSeqInputs ==
    UNION {[1..n -> CapInputs] : n \in 0..MaxCaps}

\* u32 words: 0, 0x300, 0xFFFF_FFFF
U32Inputs == {{}, {8, 9}, U32}

\* u64 masks, some with bits at and above NUM_CAPS
U64Inputs == {BitOrW(Shl64(u, 32), l) : l \in U32Inputs, u \in U32Inputs}

\* the four bytes of a magic: byte 0 holds the low flag bits, byte 3 the revision
MagicInputs ==
    {<<b0, 0, 0, b3>> : b0 \in 0..3, b3 \in 0..4}
    \cup {<<1, 0, 128, 2>>, <<0, 128, 0, 3>>, <<0, 0, 0, 129>>, <<1, 0, 0, 130>>}

\* permitted low, inheritable low, permitted high, inheritable high
\* (0x3002 = DAC_OVERRIDE, NET_ADMIN, NET_RAW; high 0x4 = SYSLOG, 0x8 = WAKE_ALARM)
WordInputs ==
    {<<{1, 12, 13}, {1, 12, 13}, {}, {}>>,
     <<{1, 12, 13}, {1, 12, 13}, {2}, {3}>>,
     <<{}, {0}, {}, {2}>>,
     <<{0}, {}, {8}, {}>>,
     <<U32, {}, {8, 9}, {3, 31}>>,
     <<U32, U32, U32, U32>>}

\* 1000 and 0xFFFF_FFFF
RootidInputs == {{3, 5, 6, 7, 8, 9}, U32}

\* the first len bytes of magic, four words, a root id and filler
MakeAttrs(len, magic, w, rootid) ==
    LET full == magic \o to_le_bytes(w[1]) \o to_le_bytes(w[2]) \o to_le_bytes(w[3])
                \o to_le_bytes(w[4]) \o to_le_bytes(rootid)
    IN  [i \in 1..len |-> IF i <= Len(full) THEN full[i] ELSE 165]

AttrInputs ==
    {MakeAttrs(len, m, w, r) : len \in 0..MaxAttrLen, m \in MagicInputs,
                               w \in WordInputs, r \in RootidInputs}

\* CapSet values as the constructors make them
CapSetInputs == {from_bitmasks_u32(l, u) : l \in U32Inputs, u \in {{}, {2}, {8, 9}}}

FileCapsInputs ==
    {FileCaps(e, p, i, r) : e \in BOOLEAN, p \in CapSetInputs, i \in CapSetInputs,
                            r \in {None} \cup {Some(x) : x \in RootidInputs \cup {{}}}}

\* well-formed attribute values, for the sets FileCaps hands to CapSet code
AcceptedInputs ==
    {MakeAttrs(<<XATTR_CAPS_SZ_1, XATTR_CAPS_SZ_2, XATTR_CAPS_SZ_3>>[v],
               <<1, 0, 0, v>>, <<l, u, u, l>>, {}) :
        v \in 1..3, l \in U32Inputs, u \in U32Inputs \ {{}}}

NoInput == [kind |-> "none", attrs |-> <<>>, caps |-> FileCaps_empty]

\* the longest sequence of capabilities a traversed set is collected from
MaxIterCaps == 3

\* the number of next() calls made on an exhausted iterator
MaxNones == 2

\* CHOWN, the first capability of the upper 32-bit word, the last one
IterCapInputs == {0, 32, NUM_CAPS - 1}

\* the sequences a traversed set is collected from, in every order
IterSeqInputs == UNION {[1..n -> IterCapInputs] : n \in 0..MaxIterCaps}

\* errno values of a failed getxattr other than ENODATA (EPERM, EACCES among them)
ErrnoInputs == {ENOTDIR, EBADF, EINVAL, 1, 13}

\* a file: its attribute (None when it has none), the error its lookup fails
\* with (0 when it does not), and what the last getxattr returned
File(attr, fail) == [attr |-> attr, fail |-> fail, ret |-> 0, errno |-> 0]

NoFile == File(None, 0)

\* files with an attribute of every shape, without one, and whose lookup fails
FileInputs ==
    {File(Some(a), 0) : a \in AttrInputs}
    \cup {NoFile}
    \cup {File(a, e) : a \in {None, Some(<<1, 0, 0, 2>>)}, e \in ErrnoInputs}

\* no traversal made yet
NoRun ==
    [added |-> <<>>, op |-> "init", yielded |-> <<>>, ret |-> None, nones |-> 0,
     cloned |-> FALSE, cat |-> 0, cyielded |-> <<>>, cret |-> None, cnones |-> 0,
     len |-> 0, count |-> 0, hint |-> <<0, None>>, last |-> None]

-----------------------------------------------------------------------------
(* Spec: a program holding two CapSet values, `set` and `other` *)

Init ==
    /\ set = empty
    /\ other = empty
    /\ last = "init"
    /\ input = NoInput
    /\ attrs = <<>>
    /\ fcaps = FileCaps_empty
    /\ res = Err(0)
    /\ hist = <<>>
    /\ os = NoFile
    /\ got = Err(0)
    /\ it = iter(empty)
    /\ cl = iter(empty)
    /\ run = NoRun

codec_vars == <<input, attrs, fcaps, res, hist, os, got>>

iter_vars == <<it, cl, run>>

\* set = CapSet::empty()
Empty ==
    /\ set' = empty
    /\ last' = "empty"
    /\ UNCHANGED <<other, codec_vars, iter_vars>>

\* set.clear()
Clear ==
    /\ set' = clear(set)
    /\ last' = "clear"
    /\ UNCHANGED <<other, codec_vars, iter_vars>>

\* set = CapSet::from_bitmask_truncate(bitmask)
FromBitmaskTruncate ==
    \E bitmask \in U64Inputs :
        /\ set' = from_bitmask_truncate(bitmask)
        /\ last' = IF bitmask \subseteq CAP_BITMASK THEN "from_bitmask" ELSE "from_bitmask_high"
        /\ UNCHANGED <<other, codec_vars, iter_vars>>

\* set = CapSet::from_bitmasks_u32(lower, upper)
FromBitmasksU32 ==
    \E lower \in U32Inputs, upper \in U32Inputs :
        /\ set' = from_bitmasks_u32(lower, upper)
        /\ last' = "from_bitmasks_u32"
        /\ UNCHANGED <<other, codec_vars, iter_vars>>

\* set = capset!(...)
CapsetMacro ==
    \E caps \in CapSeqInputs :
        /\ set' = capset(caps)
        /\ last' = "capset"
        /\ UNCHANGED <<other, codec_vars, iter_vars>>

\* set.add(cap)
Add ==
    \E cap \in CapInputs :
        /\ set' = add(set, cap)
        /\ last' = "add"
        /\ UNCHANGED <<other, codec_vars, iter_vars>>

\* set.drop(cap)
Drop ==
    \E cap \in CapInputs :
        /\ set' = drop(set, cap)
        /\ last' = "drop"
        /\ UNCHANGED <<other, codec_vars, iter_vars>>

\* set.set_state(cap, val)
SetState ==
    \E cap \in CapInputs, val \in BOOLEAN :
        /\ set' = set_state(set, cap, val)
        /\ last' = "set_state"
        /\ UNCHANGED <<other, codec_vars, iter_vars>>

\* set.add_all(t)
AddAll ==
    \E t \in CapSeqInputs :
        /\ set' = add_all(set, t)
        /\ last' = "add_all"
        /\ UNCHANGED <<other, codec_vars, iter_vars>>

\* set.drop_all(t)
DropAll ==
    \E t \in CapSeqInputs :
        /\ set' = drop_all(set, t)
        /\ last' = "drop_all"
        /\ UNCHANGED <<other, codec_vars, iter_vars>>

\* other = set.union(other), other = set.intersection(other)
Methods ==
    /\ \/ other' = union(set, other) /\ last' = "union"
       \/ other' = intersection(set, other) /\ last' = "intersection"
    /\ UNCHANGED <<set, codec_vars, iter_vars>>

\* other = !set, set & other, set | other, set ^ other, set - other
Operators ==
    /\ \/ other' = not(set) /\ last' = "not"
       \/ other' = bitand(set, other) /\ last' = "bitand"
       \/ other' = bitor(set, other) /\ last' = "bitor"
       \/ other' = bitxor(set, other) /\ last' = "bitxor"
       \/ other' = sub(set, other) /\ last' = "sub"
    /\ UNCHANGED <<set, codec_vars, iter_vars>>

\* set &= other, set |= other, set ^= other, set -= other
AssignOperators ==
    /\ \/ set' = bitand(set, other) /\ last' = "bitand_assign"
       \/ set' = bitor(set, other) /\ last' = "bitor_assign"
       \/ set' = bitxor(set, other) /\ last' = "bitxor_assign"
       \/ set' = sub(set, other) /\ last' = "sub_assign"
    /\ UNCHANGED <<other, codec_vars, iter_vars>>

\* set = other (CapSet is Copy)
Copy ==
    /\ set' = other
    /\ last' = "copy"
    /\ UNCHANGED <<other, codec_vars, iter_vars>>

\* the permitted and inheritable sets of FileCaps::unpack_attrs(attrs)
FromUnpack ==
    \E r \in {unpack_attrs(a) : a \in AcceptedInputs} :
        /\ r.ok
        /\ set' = r.val[1].permitted
        /\ other' = r.val[1].inheritable
        /\ last' = "unpack_attrs"
        /\ UNCHANGED <<codec_vars, iter_vars>>

Next ==
    \/ Empty
    \/ Clear
    \/ FromBitmaskTruncate
    \/ FromBitmasksU32
    \/ CapsetMacro
    \/ Add
    \/ Drop
    \/ SetState
    \/ AddAll
    \/ DropAll
    \/ Methods
    \/ Operators
    \/ AssignOperators
    \/ Copy
    \/ FromUnpack

Spec == Init /\ [][Next]_vars

-----------------------------------------------------------------------------
(* CodecSpec: an attribute value or a FileCaps value is taken through      *)
(* unpack_attrs and pack_attrs, up to MaxOps calls                         *)

set_vars == <<set, other, last>>

CodecInit ==
    /\ set = empty
    /\ other = empty
    /\ last = "init"
    /\ res = Err(0)
    /\ hist = <<>>
    /\ got = Err(0)
    /\ it = iter(empty)
    /\ cl = iter(empty)
    /\ run = NoRun
    /\ \/ \E a \in AttrInputs :
            /\ input = [kind |-> "attrs", attrs |-> a, caps |-> FileCaps_empty]
            /\ attrs = a
            /\ fcaps = FileCaps_empty
            /\ os = NoFile
       \/ \E c \in FileCapsInputs :
            /\ input = [kind |-> "caps", attrs |-> <<>>, caps |-> c]
            /\ attrs = <<>>
            /\ fcaps = c
            /\ os = NoFile
       \/ \E f \in FileInputs :
            /\ input = [kind |-> "file", attrs |-> <<>>, caps |-> FileCaps_empty]
            /\ attrs = <<>>
            /\ fcaps = FileCaps_empty
            /\ os = f

\* res = FileCaps::unpack_attrs(&attrs); on Ok the caller keeps the value
UnpackAttrs ==
    /\ Len(hist) < MaxOps
    /\ \/ hist = <<>> /\ input.kind = "attrs"
       \/ hist # <<>> /\ hist[Len(hist)] = "pack"
    /\ res' = unpack_attrs(attrs)
    /\ fcaps' = IF res'.ok THEN res'.val[1] ELSE fcaps
    /\ hist' = Append(hist, "unpack")
    /\ UNCHANGED <<input, attrs, os, got, set_vars, iter_vars>>

\* attrs = fcaps.pack_attrs()
PackAttrs ==
    /\ Len(hist) < MaxOps
    /\ \/ hist = <<>> /\ input.kind = "caps"
       \/ hist # <<>> /\ hist[Len(hist)] = "unpack" /\ res.ok
    /\ attrs' = pack_attrs(fcaps)
    /\ hist' = Append(hist, "pack")
    /\ UNCHANGED <<input, fcaps, res, os, got, set_vars, iter_vars>>

\* got = FileCaps::get_for_file(path) or FileCaps::get_for_fd(fd); attrs is the
\* buffer getxattr filled; on Ok(Some(..)) the caller keeps the value
GetFor ==
    /\ hist = <<>>
    /\ input.kind = "file"
    /\ LET r == getxattr(os.attr, os.fail, XATTR_CAPS_MAX_SIZE) IN
        /\ os' = [os EXCEPT !.ret = r.ret, !.errno = r.errno]
        /\ attrs' = r.data
    /\ got' = get_for(os.attr, os.fail)
    /\ fcaps' = IF got'.ok /\ got'.val[1] # None THEN got'.val[1][1] ELSE fcaps
    /\ hist' = Append(hist, "get")
    /\ UNCHANGED <<input, res, set_vars, iter_vars>>

CodecNext ==
    \/ UnpackAttrs
    \/ PackAttrs
    \/ GetFor

CodecSpec == CodecInit /\ [][CodecNext]_vars

-----------------------------------------------------------------------------
(* IterSpec: a set is collected from a sequence of capabilities and         *)
(* traversed with an iterator; the iterator is cloned once, at any point,   *)
(* and both are advanced and queried in any interleaving                   *)

IterInit ==
    /\ set = empty
    /\ other = empty
    /\ last = "init"
    /\ input = NoInput
    /\ attrs = <<>>
    /\ fcaps = FileCaps_empty
    /\ res = Err(0)
    /\ hist = <<>>
    /\ os = NoFile
    /\ got = Err(0)
    /\ cl = iter(empty)
    /\ \E t \in IterSeqInputs :
        /\ it = iter(from_iter(t))
        /\ run = [NoRun EXCEPT !.added = t]

\* the results of earlier queries are dropped
Forget(r) == [r EXCEPT !.len = 0, !.count = 0, !.hint = <<0, None>>, !.last = None]

\* run.ret = it.next()
IterNext ==
    /\ run.nones < MaxNones
    /\ LET r == CapSetIterator_next(it) IN
        /\ it' = r.it
        /\ run' = [Forget(run) EXCEPT
                       !.op = "next",
                       !.ret = r.ret,
                       !.yielded = IF r.ret # None THEN Append(@, r.ret[1]) ELSE @,
                       !.nones = IF r.ret = None THEN @ + 1 ELSE @]
    /\ UNCHANGED <<cl, set_vars, codec_vars>>

\* cl = it.clone()
IterClone ==
    /\ ~run.cloned
    /\ cl' = CapSetIterator_clone(it)
    /\ run' = [Forget(run) EXCEPT !.op = "clone", !.cloned = TRUE,
                                   !.cat = Len(run.yielded)]
    /\ UNCHANGED <<it, set_vars, codec_vars>>

\* run.cret = cl.next()
CloneNext ==
    /\ run.cloned
    /\ run.cnones < MaxNones
    /\ LET r == CapSetIterator_next(cl) IN
        /\ cl' = r.it
        /\ run' = [Forget(run) EXCEPT
                       !.op = "clone_next",
                       !.cret = r.ret,
                       !.cyielded = IF r.ret # None THEN Append(@, r.ret[1]) ELSE @,
                       !.cnones = IF r.ret = None THEN @ + 1 ELSE @]
    /\ UNCHANGED <<it, set_vars, codec_vars>>

\* it.len(), it.clone().count(), it.size_hint()
IterLen ==
    /\ run.op # "len"
    /\ run' = [Forget(run) EXCEPT
                   !.op = "len",
                   !.len = CapSetIterator_len(it),
                   !.count = CapSetIterator_count(CapSetIterator_clone(it)),
                   !.hint = CapSetIterator_size_hint(it)]
    /\ UNCHANGED <<it, cl, set_vars, codec_vars>>

\* it.clone().last()
IterLast ==
    /\ run.op # "last"
    /\ run' = [Forget(run) EXCEPT
                   !.op = "last",
                   !.last = CapSetIterator_last(CapSetIterator_clone(it))]
    /\ UNCHANGED <<it, cl, set_vars, codec_vars>>

IterStep ==
    \/ IterNext
    \/ IterClone
    \/ CloneNext
    \/ IterLen
    \/ IterLast

IterSpec == IterInit /\ [][IterStep]_vars

-----------------------------------------------------------------------------
(* Properties *)

LastOp == IF hist = <<>> THEN "none" ELSE hist[Len(hist)]

\* bit p of the little-endian 32-bit word stored at bytes off .. off + 3 of b
WordBit(b, off, p) == (b[off + 1 + (p \div 8)] \div (2 ^ (p % 8))) % 2 = 1

\* the revision number a magic carries: its most significant byte, byte 3 of b
RevisionByte(b) == b[4]

\* attrs was just handed to unpack_attrs and res is its result
Unpacked == LastOp = "unpack"

\* fcaps was just handed to pack_attrs and attrs is its result
Packed == LastOp = "pack"

(* C1: in every CapSet value the public operations produce (constructors,   *)
(* single-capability and bulk mutation, the set algebra and its assigning   *)
(* forms, the sets unpack_attrs returns) no bit at a position >= NUM_CAPS   *)
(* is set: bits & !CAP_BITMASK == 0; a raw mask with such bits is masked.   *)
C1_BitsWithinMask ==
    /\ BitAndW(set.bits, BitNot64(CAP_BITMASK)) = {}
    /\ BitAndW(other.bits, BitNot64(CAP_BITMASK)) = {}

\* a raw mask with bits at and above NUM_CAPS was truncated to a non-empty set
C1_Witness ==
    /\ last = "from_bitmask_high"
    /\ set.bits # {}
    /\ NUM_CAPS - 1 \in set.bits

(* C2: for every FileCaps value x, unpack_attrs(pack_attrs(x)) succeeds and *)
(* returns a value equal to x.                                              *)
C2_UnpackOfPack ==
    (input.kind = "caps" /\ Unpacked) =>
        /\ res.ok
        /\ res.val = Some(input.caps)

\* a value with a root id, the effective flag and capabilities above bit 31
C2_Witness ==
    /\ input.kind = "caps"
    /\ hist = <<"pack", "unpack">>
    /\ input.caps.effective
    /\ input.caps.rootid = Some({3, 5, 6, 7, 8, 9})
    /\ NUM_CAPS - 1 \in input.caps.permitted.bits
    /\ input.caps.inheritable # input.caps.permitted

\* an accepted version 2 or version 3 attribute value was decoded and packed again
C3_RoundTripped ==
    /\ input.kind = "attrs"
    /\ Len(hist) >= 2
    /\ hist[1] = "unpack"
    /\ hist[2] = "pack"
    /\ Len(input.attrs) \in {XATTR_CAPS_SZ_2, XATTR_CAPS_SZ_3}

\* the magic of b has no flag bit but the effective flag, and its four capability
\* words have no bit at a position >= NUM_CAPS
C3_Canonical(b) ==
    /\ \A p \in 1..23 : ~WordBit(b, 0, p)
    /\ \A p \in 0..31 :
        /\ WordBit(b, 4, p) => p \in CAP_BITMASK
        /\ WordBit(b, 8, p) => p \in CAP_BITMASK
        /\ WordBit(b, 12, p) => p + 32 \in CAP_BITMASK
        /\ WordBit(b, 16, p) => p + 32 \in CAP_BITMASK

\* bit p (0 .. 8 * Len(b) - 1) of b survives decoding and packing
C3_Kept(b, p) ==
    LET off == 4 * (p \div 32)
        q == p % 32
    IN  CASE off = 0 -> q = 0 \/ q >= 24
          [] off = 4 \/ off = 8 -> q \in CAP_BITMASK
          [] off = 12 \/ off = 16 -> q + 32 \in CAP_BITMASK
          [] OTHER -> TRUE

(* C3 as stated: for every buffer b accepted as version 2 or version 3,     *)
(* pack_attrs(unpack_attrs(b)) is byte-for-byte identical to b.             *)
C3_Original ==
    (C3_RoundTripped /\ Len(hist) = 2) => attrs = input.attrs

(* C3 as amended: pack_attrs(unpack_attrs(b)) has the length of b and is b  *)
(* with the flag bits other than the effective flag and the capability bits *)
(* at positions >= NUM_CAPS cleared; it is byte-for-byte identical to b     *)
(* exactly when b has no such bit set.                                      *)
C3_RoundTripCanonical ==
    (C3_RoundTripped /\ Len(hist) = 2) =>
        /\ Len(attrs) = Len(input.attrs)
        /\ \A p \in 0..(8 * Len(attrs) - 1) :
            WordBit(attrs, 4 * (p \div 32), p % 32)
                <=> (C3_Kept(input.attrs, p)
                     /\ WordBit(input.attrs, 4 * (p \div 32), p % 32))
        /\ (attrs = input.attrs) <=> C3_Canonical(input.attrs)

\* a canonical version 3 value came back identical
C3_Witness ==
    /\ C3_RoundTripped
    /\ Len(hist) = 2
    /\ Len(input.attrs) = XATTR_CAPS_SZ_3
    /\ C3_Canonical(input.attrs)
    /\ WordBit(input.attrs, 12, 2)
    /\ attrs = input.attrs

\* the 32-bit word stored little-endian at bytes off .. off + 3 of b
WordAt(b, off) == {p \in 0..31 : WordBit(b, off, p)}

\* the (version, total length) pairs of the three attribute layouts
Layouts == {<<1, XATTR_CAPS_SZ_1>>, <<2, XATTR_CAPS_SZ_2>>, <<3, XATTR_CAPS_SZ_3>>}

\* attrs was just decoded, and accepted
Decoded == Unpacked /\ res.ok

(* C4: unpack_attrs succeeds if and only if the buffer has at least 4 bytes *)
(* and its (version, total length) pair is exactly (1, 12), (2, 20) or      *)
(* (3, 24); every other input returns the error EINVAL and no value.        *)
C4_AcceptsExactLayouts ==
    Unpacked =>
        /\ res.ok <=> (/\ Len(attrs) >= 4
                       /\ <<RevisionByte(attrs), Len(attrs)>> \in Layouts)
        /\ res.ok => (res.err = 0 /\ res.val # None)
        /\ ~res.ok => (res.err = EINVAL /\ res.val = None)

\* a recognised version whose buffer is one byte too long was rejected
C4_Witness ==
    /\ hist = <<"unpack">>
    /\ Len(attrs) = XATTR_CAPS_SZ_2 + 1
    /\ RevisionByte(attrs) = 2
    /\ ~res.ok
    /\ res.err = EINVAL

(* C5: for every accepted version 2 or version 3 buffer the permitted set   *)
(* is (LE32 at 4..8) | (LE32 at 12..16) << 32 and the inheritable set is    *)
(* (LE32 at 8..12) | (LE32 at 16..20) << 32, each masked with CAP_BITMASK.  *)
C5_InterleavedWords ==
    (Decoded /\ Len(attrs) \in {XATTR_CAPS_SZ_2, XATTR_CAPS_SZ_3}) =>
        /\ res.val[1].permitted.bits =
              {p \in CAP_BITMASK : IF p < 32 THEN WordBit(attrs, 4, p)
                                             ELSE WordBit(attrs, 12, p - 32)}
        /\ res.val[1].inheritable.bits =
              {p \in CAP_BITMASK : IF p < 32 THEN WordBit(attrs, 8, p)
                                             ELSE WordBit(attrs, 16, p - 32)}

\* a version 3 value with different high words for the two sets was decoded
C5_Witness ==
    /\ Decoded
    /\ Len(attrs) = XATTR_CAPS_SZ_3
    /\ WordAt(attrs, 12) = {2}
    /\ WordAt(attrs, 16) = {3}
    /\ has(res.val[1].permitted, 34)
    /\ ~has(res.val[1].permitted, 35)
    /\ has(res.val[1].inheritable, 35)

(* C6: for every accepted version 1 (12-byte) buffer the permitted set is   *)
(* the LE32 at bytes 4..8 and the inheritable set the LE32 at bytes 8..12,  *)
(* so no capability at a bit position >= 32 is in either set.               *)
C6_Version1LowWords ==
    (Decoded /\ Len(attrs) = XATTR_CAPS_SZ_1) =>
        /\ res.val[1].permitted.bits = WordAt(attrs, 4) \cap CAP_BITMASK
        /\ res.val[1].inheritable.bits = WordAt(attrs, 8) \cap CAP_BITMASK
        /\ \A cap \in Cap : cap >= 32 =>
              /\ ~has(res.val[1].permitted, cap)
              /\ ~has(res.val[1].inheritable, cap)

\* a version 1 value with different permitted and inheritable words was decoded
C6_Witness ==
    /\ Decoded
    /\ Len(attrs) = XATTR_CAPS_SZ_1
    /\ WordAt(attrs, 4) = {0}
    /\ WordAt(attrs, 8) = {}
    /\ res.val[1].permitted.bits = {0}
    /\ res.val[1].inheritable.bits = {}

(* C7: for every accepted buffer, effective is true exactly when the        *)
(* effective flag bit of the magic is set, whatever the other flag bits,    *)
(* and rootid is Some(LE32 at bytes 20..24) exactly when the version is 3,  *)
(* None for versions 1 and 2.                                               *)
C7_EffectiveAndRootid ==
    Decoded =>
        /\ res.val[1].effective <=> WordBit(attrs, 0, 0)
        /\ RevisionByte(attrs) = 3 => res.val[1].rootid = Some(WordAt(attrs, 20))
        /\ RevisionByte(attrs) \in {1, 2} => res.val[1].rootid = None
        /\ (res.val[1].rootid # None) <=> (RevisionByte(attrs) = 3)

\* a version 3 value with another flag bit set and the effective flag clear
C7_Witness ==
    /\ Decoded
    /\ RevisionByte(attrs) = 3
    /\ WordBit(attrs, 0, 15)
    /\ ~WordBit(attrs, 0, 0)
    /\ ~res.val[1].effective
    /\ res.val[1].rootid = Some({3, 5, 6, 7, 8, 9})

(* C8: pack_attrs emits 24 bytes with version 3 in the magic when rootid is *)
(* Some, 20 bytes with version 2 when rootid is None; never a version 1 or  *)
(* 12-byte buffer, never more than the 24-byte maximum; the effective flag  *)
(* bit of the magic is set exactly when the effective field is true.        *)
C8_PackLayout ==
    Packed =>
        /\ fcaps.rootid # None =>
              (Len(attrs) = 24 /\ WordAt(attrs, 0) \ {0} = {24, 25})
        /\ fcaps.rootid = None =>
              (Len(attrs) = 20 /\ WordAt(attrs, 0) \ {0} = {25})
        /\ Len(attrs) # 12
        /\ RevisionByte(attrs) # 1
        /\ Len(attrs) <= XATTR_CAPS_MAX_SIZE
        /\ WordBit(attrs, 0, 0) <=> fcaps.effective

\* an effective value with a root id was packed
C8_Witness ==
    /\ Packed
    /\ input.kind = "caps"
    /\ fcaps.effective
    /\ fcaps.rootid = Some(U32)
    /\ Len(attrs) = XATTR_CAPS_SZ_3
    /\ WordAt(attrs, 20) = U32

\* an accepted version 1 attribute value was decoded and packed again
C9_Version1RoundTripped ==
    /\ input.kind = "attrs"
    /\ Len(input.attrs) = XATTR_CAPS_SZ_1
    /\ Len(hist) >= 2
    /\ hist[1] = "unpack"
    /\ hist[2] = "pack"

(* C9: for every accepted version 1 buffer b, pack_attrs(unpack_attrs(b))   *)
(* is a 20-byte version 2 buffer different from b, and decoding it yields   *)
(* a FileCaps equal to unpack_attrs(b): same effective flag, same permitted *)
(* and inheritable membership, rootid None.                                 *)
C9_Version1Upgrade ==
    C9_Version1RoundTripped =>
        /\ Packed =>
              /\ Len(attrs) = XATTR_CAPS_SZ_2
              /\ RevisionByte(attrs) = 2
              /\ attrs # input.attrs
        /\ Unpacked =>
              /\ res = unpack_attrs(input.attrs)
              /\ res.ok
              /\ res.val[1].effective <=> WordBit(input.attrs, 0, 0)
              /\ res.val[1].permitted.bits = WordAt(input.attrs, 4) \cap CAP_BITMASK
              /\ res.val[1].inheritable.bits = WordAt(input.attrs, 8) \cap CAP_BITMASK
              /\ res.val[1].rootid = None

\* an effective version 1 value came back from its version 2 encoding
C9_Witness ==
    /\ C9_Version1RoundTripped
    /\ hist = <<"unpack", "pack", "unpack">>
    /\ Len(attrs) = XATTR_CAPS_SZ_2
    /\ res.ok
    /\ res.val[1].effective
    /\ res.val[1].permitted.bits = {1, 12, 13}
    /\ res.val[1].inheritable.bits = {1, 12, 13}

(* C10 as stated: in the little-endian magic read from bytes 0..4 the       *)
(* version discriminant occupies the low bits and the flags field, with the *)
(* effective flag, the high bits.                                           *)
C10_Original ==
    Decoded =>
        \A i \in version_of(magic_of(attrs)) :
            \A j \in flags_of(magic_of(attrs)) : i < j

(* C10 as amended: in the little-endian magic read from bytes 0..4 the      *)
(* version discriminant occupies the high bits (bits 24..31, byte 3) and    *)
(* the flags field the low bits (bits 0..23), the effective flag being      *)
(* bit 0.                                                                   *)
C10_VersionHighFlagsLow ==
    Decoded =>
        /\ version_of(magic_of(attrs)) = WordAt(attrs, 0) \cap (24..31)
        /\ flags_of(magic_of(attrs)) = WordAt(attrs, 0) \cap (0..23)
        /\ \A i \in version_of(magic_of(attrs)) :
              \A j \in flags_of(magic_of(attrs)) : i > j
        /\ <<RevisionByte(attrs), Len(attrs)>> \in Layouts
        /\ res.val[1].effective <=> (0 \in flags_of(magic_of(attrs)))

\* an accepted version 3 magic with the effective flag: 0x03000001
C10_Witness ==
    /\ Decoded
    /\ hist = <<"unpack">>
    /\ WordAt(attrs, 0) = {0, 24, 25}
    /\ res.val[1].effective
    /\ res.val[1].rootid # None

\* the capabilities a set has
Members(s) == {c \in Cap : has(s, c)}

\* the elements of a sequence
Range(seq) == {seq[k] : k \in 1..Len(seq)}

StrictlyAscending(seq) == \A k \in 1..(Len(seq) - 1) : seq[k] < seq[k + 1]

\* what calling next() on itr until it returns None yields (at most fuel elements)
RECURSIVE DrainFrom(_, _)
DrainFrom(itr, fuel) ==
    LET r == CapSetIterator_next(itr) IN
    IF r.ret = None \/ fuel = 0 THEN <<>>
    ELSE <<r.ret[1]>> \o DrainFrom(r.it, fuel - 1)

Drain(itr) == DrainFrom(itr, NUM_CAPS + 1)

(* C11: calling next() on s.iter() until it returns None yields exactly the *)
(* capabilities c with s.has(c), each once, in strictly ascending order     *)
(* of bit position whatever the order they were added in, and as many       *)
(* elements as s.size().                                                    *)
C11_AscendingMembers ==
    /\ it.set = from_iter(run.added)
    /\ Members(it.set) = Range(run.added)
    /\ StrictlyAscending(run.yielded)
    /\ Range(run.yielded) \subseteq Members(it.set)
    /\ run.nones > 0 =>
          /\ Range(run.yielded) = Members(it.set)
          /\ Len(run.yielded) = size(it.set)

\* a set collected out of order was traversed to the end
C11_Witness ==
    /\ run.added = <<NUM_CAPS - 1, 0, 32>>
    /\ run.nones = 1
    /\ run.op = "next"
    /\ run.ret = None
    /\ run.yielded = <<0, 32, NUM_CAPS - 1>>

(* C12: in every state of an iterator that next() calls reach, len(),       *)
(* count() and both bounds of size_hint() are the number of elements the    *)
(* remaining next() calls yield; the value starts at size(), goes down by   *)
(* exactly 1 with each element yielded, and is 0 exactly when none remains. *)
C12_RemainingLength ==
    /\ \A itr \in {it, cl} :
          LET n == Len(Drain(itr)) IN
          /\ CapSetIterator_len(itr) = n
          /\ CapSetIterator_count(CapSetIterator_clone(itr)) = n
          /\ CapSetIterator_size_hint(itr) = <<n, Some(n)>>
          /\ (n = 0) <=> (CapSetIterator_next(itr).ret = None)
    /\ CapSetIterator_len(iter(it.set)) = size(it.set)
    /\ CapSetIterator_len(it) = size(it.set) - Len(run.yielded)
    /\ run.cloned =>
          CapSetIterator_len(cl) = size(cl.set) - run.cat - Len(run.cyielded)
    /\ run.op = "len" =>
          /\ run.len = size(it.set) - Len(run.yielded)
          /\ run.count = run.len
          /\ run.hint = <<run.len, Some(run.len)>>

\* len() was asked after one of three elements had been yielded
C12_Witness ==
    /\ run.op = "len"
    /\ run.added = <<32, NUM_CAPS - 1, 0>>
    /\ run.yielded = <<0>>
    /\ run.len = 2
    /\ run.count = 2
    /\ run.hint = <<2, Some(2)>>

\* the highest capability of a set, None for the empty set
Highest(s) ==
    LET m == Members(s) IN
    IF m = {} THEN None ELSE Some(CHOOSE c \in m : \A d \in m : d <= c)

\* the last element of a sequence, None for the empty sequence
Final(seq) == IF seq = <<>> THEN None ELSE Some(seq[Len(seq)])

(* C13: in every state of an iterator that next() calls reach, last() is    *)
(* what draining the iterator with next() and keeping the final element     *)
(* gives: Some(the highest member of the set) while that member has not     *)
(* been yielded, None once it has been or when the set is empty.            *)
C13_LastIsFinalElement ==
    /\ \A itr \in {it, cl} :
          CapSetIterator_last(CapSetIterator_clone(itr)) = Final(Drain(itr))
    /\ CapSetIterator_last(CapSetIterator_clone(it)) =
          IF Highest(it.set) # None /\ Highest(it.set)[1] \notin Range(run.yielded)
          THEN Highest(it.set) ELSE None
    /\ run.op = "last" =>
          run.last = IF Final(run.yielded) = Highest(it.set) THEN None
                     ELSE Highest(it.set)

\* last() was asked with the lower of two members yielded
C13_Witness ==
    /\ run.op = "last"
    /\ run.added = <<NUM_CAPS - 1, 32>>
    /\ run.yielded = <<32>>
    /\ run.last = Some(NUM_CAPS - 1)

(* C18: whatever next() calls are made, the cursor i never exceeds NUM_CAPS *)
(* (the shift in len() is by less than 64); once next() has returned None   *)
(* every later next() returns None and leaves the cursor unchanged; and     *)
(* advancing a clone does not change what the original goes on to yield.    *)
C18_CursorBoundedAndFused ==
    /\ it.i <= NUM_CAPS /\ NUM_CAPS < 64
    /\ cl.i <= NUM_CAPS
    /\ run.nones > 0 =>
          /\ run.ret = None
          /\ it.i = NUM_CAPS
          /\ CapSetIterator_next(it) = [it |-> it, ret |-> None]
    /\ run.cnones > 0 =>
          /\ run.cret = None
          /\ CapSetIterator_next(cl) = [it |-> cl, ret |-> None]
    /\ run.yielded \o Drain(it) = Drain(iter(it.set))
    /\ run.cloned =>
          SubSeq(run.yielded, 1, run.cat) \o run.cyielded \o Drain(cl)
              = Drain(iter(it.set))

\* the original was advanced to its end after its clone had been exhausted twice
C18_Witness ==
    /\ run.added = <<0, NUM_CAPS - 1>>
    /\ run.cloned
    /\ run.cat = 1
    /\ run.cnones = 2
    /\ run.cyielded = <<NUM_CAPS - 1>>
    /\ run.nones = 2
    /\ run.op = "next"
    /\ run.yielded = <<0, NUM_CAPS - 1>>
    /\ it.i = NUM_CAPS

\* the set of all valid capabilities
Full == CapSet(CAP_BITMASK)

(* C14: for all CapSet values a and b within CAP_BITMASK: a | !a is the     *)
(* full set (bits == CAP_BITMASK), a & !a is the empty set, and a - b       *)
(* equals a & !b.                                                           *)
C14_BooleanIdentities ==
    /\ \A a \in {set, other} :
          /\ bitor(a, not(a)).bits = CAP_BITMASK
          /\ bitand(a, not(a)) = empty
    /\ \A a \in {set, other} : \A b \in {set, other} :
          /\ sub(a, b) = bitand(a, not(b))
          /\ Members(sub(a, b)) = Members(a) \ Members(b)
    /\ last = "not" => (bitor(set, other) = Full /\ bitand(set, other) = empty)

\* a difference was taken that removed some, not all, of a set
C14_Witness ==
    /\ last = "sub"
    /\ other.bits # {}
    /\ other.bits # set.bits
    /\ other.bits \subseteq set.bits
    /\ NUM_CAPS - 1 \in set.bits \ other.bits

(* C15: the complement is truncated to CAP_BITMASK: the complement of the   *)
(* set of all valid capabilities is the empty set, the complement of the    *)
(* empty set is the set of all valid capabilities, and !!a == a for every   *)
(* CapSet a.                                                                *)
C15_ComplementTruncated ==
    /\ not(Full) = empty
    /\ not(empty) = Full
    /\ \A a \in {set, other} :
          /\ not(not(a)) = a
          /\ not(a).bits \subseteq CAP_BITMASK
          /\ Members(not(a)) = Cap \ Members(a)
    /\ (last = "not" /\ set = Full) => other = empty
    /\ (last = "not" /\ set = empty) => other = Full

\* the complement of the set of all valid capabilities was taken
C15_Witness ==
    /\ last = "not"
    /\ set.bits = CAP_BITMASK
    /\ other = empty

(* C16: for every CapSet s and capability c: the empty set does not have c; *)
(* after add(c) has(c) is true, after drop(c) false, after set_state(c, v)  *)
(* it is v; add and drop are idempotent; add(c) then drop(c) on the empty   *)
(* set gives the empty set; and none of these changes the membership of a   *)
(* capability other than c.                                                 *)
C16_SingleCapability ==
    \A c \in Cap :
        /\ ~has(empty, c)
        /\ drop(add(empty, c), c) = empty
        /\ \A s \in {set, other} :
              /\ has(add(s, c), c)
              /\ ~has(drop(s, c), c)
              /\ \A v \in BOOLEAN : has(set_state(s, c, v), c) = v
              /\ add(add(s, c), c) = add(s, c)
              /\ drop(drop(s, c), c) = drop(s, c)
              /\ \A t \in {add(s, c), drop(s, c),
                           set_state(s, c, TRUE), set_state(s, c, FALSE)} :
                    /\ t.bits \ {c} = s.bits \ {c}
                    /\ c \in CapInputs =>
                          \A d \in Cap \ {c} : has(t, d) = has(s, d)

\* the last capability was added to a set that keeps another and lacks CHOWN
C16_Witness ==
    /\ last = "add"
    /\ has(set, NUM_CAPS - 1)
    /\ ~has(set, 0)
    /\ has(set, 8)

\* the attribute of a file was just read and got is the result
Read == LastOp = "get"

(* C17: when a file's capability attribute is read, a non-negative read     *)
(* result of n bytes is decoded from exactly the first n bytes of the       *)
(* buffer and gives Ok(Some(caps)), or Err when decoding fails (n == 0      *)
(* included: an error, not absence); a failed read with ENODATA gives       *)
(* Ok(None); a failed read with any other code gives Err with that code.    *)
C17_ReadOutcome ==
    Read =>
        /\ os.ret >= 0 =>
              LET first == SubSeq(attrs, 1, os.ret)
                  accepted == /\ os.ret >= 4
                              /\ <<RevisionByte(first), os.ret>> \in Layouts
              IN  /\ got.ok <=> accepted
                  /\ got.ok => /\ got.val = Some(Some(unpack_attrs(first).val[1]))
                               /\ first = os.attr[1]
                  /\ ~got.ok => (got.err = EINVAL /\ got.val = None)
                  /\ os.ret = 0 => ~got.ok
        /\ (os.ret < 0 /\ os.errno = ENODATA) =>
              (got.ok /\ got.val = Some(None))
        /\ (os.ret < 0 /\ os.errno # ENODATA) =>
              (~got.ok /\ got.err = os.errno /\ got.val = None)

\* a 20-byte attribute was read into the 24-byte buffer and decoded
C17_Witness ==
    /\ Read
    /\ os.ret = XATTR_CAPS_SZ_2
    /\ Len(attrs) = XATTR_CAPS_MAX_SIZE
    /\ got.ok
    /\ got.val # Some(None)
    /\ got.val[1][1].effective
    /\ got.val[1][1].rootid = None
    /\ has(got.val[1][1].permitted, 34)

=============================================================================
